---- MODULE Spec2Model ----
(***************************************************************************)
(* ThankuMail gift service: the gift table, the claim / get / claim-page   *)
(* handlers and the creation handlers with their daily counters and email  *)
(* dispatch.  Two revisions of server/routes.ts are modelled side by side: *)
(*   "v14"    the daily-limits revision (ROUTES_MARKER_v14, direct db use,  *)
(*            bumpDaily, response before the background email)             *)
(*   "routes" the storage-based revision (hitCounter, claim cooldown,      *)
(*            sendGiftEmail awaited before the response)                   *)
(* and, for the claim and get handlers only, the first registerRoutes of   *)
(* server/routes.ts ("legacy": storage-based, no cooldown, no counters);   *)
(* for the creation handler only, the earlier storage-based revision       *)
(* ("part005": CAPTCHA and disposable block, no counters).                 *)
(* A request is a process: every await of a handler is a step boundary,    *)
(* the synchronous code between two awaits is one atomic step (Node runs   *)
(* it to completion on one thread).                                        *)
(***************************************************************************)
EXTENDS Integers, Sequences, FiniteSets, TLC

VARIABLES gifts, now, req, rev, env, dailyByIp, dailyByRecipient, ipDaily,
          emailDaily, mailer, hits

vars ==
  <<gifts, now, req, rev, env, dailyByIp, dailyByRecipient, ipDaily, emailDaily,
    mailer, hits>>

\* what no request step changes besides the table, the clock and req: the
\* deployed revision, process.env and the four counter maps
counters ==
  <<rev, env, dailyByIp, dailyByRecipient, ipDaily, emailDaily, mailer, hits>>

(* ------------------------------ bounds -------------------------------- *)
\* request slots of the lifecycle specification
MaxReqs == 3
\* request slots of the creation specification
MaxCreates == 3
\* request slots of the guard specification
MaxGuards == 2
\* request slots of the burst specification
MaxBurst == 4
\* opts.max of giftLimiter (5), scaled
BURST_MAX == 2
\* opts.windowMs of giftLimiter (one minute), in clock ticks
BURST_WINDOW == 2
\* clock ticks per UTC day
DayLen == 2

\* the clock runs from 0 to the first tick of the second day
MaxTime == DayLen

Largest(S) == CHOOSE n \in S : \A m \in S : m <= n

Slots == 1 .. Largest({MaxReqs, MaxCreates, MaxGuards, MaxBurst})

(* ----------------------------- constants ------------------------------ *)
NULL == -1

\* claim cooldown, in clock ticks (60 s of the source are one tick)
MIN_CLAIM_DELAY_MS == 1

\* the clock of the lifecycle specification ticks through two cooldowns
MaxTicks == 2 * MIN_CLAIM_DELAY_MS

MIN_AMOUNT_CENTS == 1000

DemoId == "demo-gift"

\* the ids requests ask for: the demo row and one random id
AllIds == {DemoId, "a1b2c3d4e5f6"}

Handlers == {"v14", "routes", "legacy"}

\* DAILY_IP_LIMIT / DAILY_RECIPIENT_LIMIT of the v14 revision, as configured
\* through the environment (the defaults are 40 and 8)
DAILY_IP_LIMIT == 2
DAILY_RECIPIENT_LIMIT == 1

\* DAILY_MAX_PER_IP / DAILY_MAX_PER_EMAIL of the storage-based revision,
\* scaled from 20 and 10 to the number of requests explored
DAILY_MAX_PER_IP == 2
DAILY_MAX_PER_EMAIL == 1

\* client keys (getClientKey / req.ip)
Ips == {"10.0.0.1|thankumail.com"}

\* recipient addresses of the creation specification
Emails == {"amy@example.com", "Amy@Example.com", "bob@example.com"}

\* recipient addresses of the guard specification: a clean one, one of a
\* blocklisted domain (in capitals) and one without '@'
GuardEmails == {"amy@example.com", "eve@Mailinator.com", "amy"}

\* String.trim().toLowerCase() on the addresses above
Normalize(e) ==
  IF e = "Amy@Example.com" THEN "amy@example.com"
  ELSE IF e = "eve@Mailinator.com" THEN "eve@mailinator.com"
  ELSE e

Recipients == {Normalize(e) : e \in Emails \cup GuardEmails}

\* String.split("@") on the addresses above and their lower-case forms
AtParts(e) ==
  CASE e = "amy@example.com" -> <<"amy", "example.com">>
    [] e = "Amy@Example.com" -> <<"Amy", "Example.com">>
    [] e = "bob@example.com" -> <<"bob", "example.com">>
    [] e = "eve@Mailinator.com" -> <<"eve", "Mailinator.com">>
    [] e = "eve@mailinator.com" -> <<"eve", "mailinator.com">>
    [] e = "amy@localhost" -> <<"amy", "localhost">>
    [] OTHER -> <<e>>

\* String.toLowerCase() on the domains above
ToLower(d) ==
  IF d = "Example.com" THEN "example.com"
  ELSE IF d = "Mailinator.com" THEN "mailinator.com"
  ELSE d

\* z.string().email() on the addresses above
IsEmail(e) == Len(AtParts(e)) = 2

\* amounts of the guard specification: one cent below the floor, the floor
Amounts == {MIN_AMOUNT_CENTS - 1, MIN_AMOUNT_CENTS}

\* turnstileToken of a request body: absent, present
Tokens == {"", "tok"}

\* String.trim() on the message texts of creation requests ("hello" and
\* " hello ")
Trim(m) == IF m = " hello " THEN "hello" ELSE m

\* the n-th fresh value of crypto.randomBytes(6).toString("hex")
IdPool == <<"a1b2c3d4e5f6", "0f0e0d0c0b0a", "c0ffee123456", "deadbeef0001",
            "123456789abc">>

(* ------------------------------ the table ----------------------------- *)
\* a row whose is_claimed column defaults to true
Gift_bornClaimed(pid, email, msg, amt, t) ==
  [publicId |-> pid, recipientEmail |-> email, message |-> msg, amount |-> amt,
   isClaimed |-> TRUE, createdAt |-> t, claimedAt |-> NULL]

\* one row of table gifts.  The table is the set of its rows: the serial id
\* is read by no handler logic, and public_id identifies a row
Gift(pid, email, msg, amt, t) ==
  [publicId |-> pid, recipientEmail |-> email, message |-> msg, amount |-> amt,
   isClaimed |-> FALSE, createdAt |-> t, claimedAt |-> NULL]

\* the demo row both seed() functions insert into an empty table
SeedRow == Gift(DemoId, "demo@example.com", "demo", 1000, 0)

\* the result of a select that found no row
NoRow == Gift("none", "none", "none", 0, NULL)

HasGift(g, pid) == \E row \in g : row.publicId = pid

\* select ... where public_id = pid (limit 1); only called when HasGift
getGift(g, pid) == CHOOSE row \in g : row.publicId = pid

\* claimGift writing the negation of the stored flag instead of true
claimGift_toggle(g, pid, t) ==
  {IF row.publicId = pid
     THEN [row EXCEPT !.isClaimed = ~row.isClaimed, !.claimedAt = t]
     ELSE row : row \in g}

\* claimGift whose update has no where clause
claimGift_allRows(g, pid, t) ==
  {[row EXCEPT !.isClaimed = TRUE, !.claimedAt = t] : row \in g}

\* storage.claimGift: update gifts set is_claimed, claimed_at where public_id
claimGift(g, pid, t) ==
  {IF row.publicId = pid
     THEN [row EXCEPT !.isClaimed = TRUE, !.claimedAt = t]
     ELSE row : row \in g}

\* the v14 update without claimedAt in its set clause
updateClaimed_noStamp(g, pid, t) ==
  {IF row.publicId = pid THEN [row EXCEPT !.isClaimed = TRUE] ELSE row :
     row \in g}

\* the update of the v14 claim handler (db.update(gifts).set(...).where(...))
updateClaimed(g, pid, t) ==
  {IF row.publicId = pid
     THEN [row EXCEPT !.isClaimed = TRUE, !.claimedAt = t]
     ELSE row : row \in g}

\* the arguments of one sendGiftEmail call; the claim link is given by the
\* public id its path ends with (/claim/{claim})
MailArgs(to, claim, message, amount) ==
  [to |-> to, claim |-> claim, message |-> message, amount |-> amount]

(* ------------------------------ requests ------------------------------ *)
Idle ==
  [op |-> "none", h |-> "none", pc |-> "idle", pid |-> "none", ip |-> "none",
   email |-> "none", msg |-> "none", amount |-> 0,
   status |-> 0, t |-> NULL, day |-> NULL, gift |-> "none", mail |-> "none",
   why |-> "none", seen |-> NoRow,
   body |-> [message |-> "none", amount |-> 0], captcha |-> "none",
   sent |-> <<>>]

\* slots are taken in order, so that permutations of requests are not
\* explored twice
CanStart(s, max) ==
  /\ s <= max
  /\ req[s].pc = "idle"
  /\ \A r \in 1 .. (s - 1) : req[r].pc # "idle"

\* request r of slot s ends with a response (code 0: none was written)
Reject(s, r, code, reason) ==
  [req EXCEPT ![s] = [r EXCEPT !.pc = "done", !.status = code, !.why = reason]]

(* ------------------------------- clock -------------------------------- *)
Tick ==
  /\ now < MaxTicks
  /\ now' = now + 1
  /\ UNCHANGED <<gifts, req, counters>>

\* the clock passes midnight (UTC): the daily counters depend on the clock
\* only through its day
Midnight ==
  /\ now < MaxTime
  /\ now' = (now \div DayLen + 1) * DayLen
  /\ UNCHANGED <<gifts, req, counters>>

(* ------------------------- POST .../:publicId/claim ------------------- *)
\* a claim handler without the cooldown check
ClaimLoad_noCooldown(s, pid) ==
  LET r == [Idle EXCEPT !.op = "claim", !.h = rev, !.pid = pid] IN
  /\ CanStart(s, MaxReqs)
  /\ IF ~HasGift(gifts, pid)
       THEN req' = Reject(s, r, 404, "NotFound")
       ELSE IF getGift(gifts, pid).isClaimed
         THEN req' = Reject(s, r, IF rev = "legacy" THEN 400 ELSE 409,
                            "AlreadyClaimed")
         ELSE req' = [req EXCEPT ![s] = [r EXCEPT !.pc = "update", !.t = now]]
  /\ UNCHANGED <<gifts, now, counters>>

\* a claim handler that answers a claimed row like a missing one
ClaimLoad_claimedAs404(s, pid) ==
  LET r == [Idle EXCEPT !.op = "claim", !.h = rev, !.pid = pid] IN
  /\ CanStart(s, MaxReqs)
  /\ IF ~HasGift(gifts, pid) \/ getGift(gifts, pid).isClaimed
       THEN req' = Reject(s, r, 404, "NotFound")
       ELSE IF rev = "routes"
                 /\ now - getGift(gifts, pid).createdAt < MIN_CLAIM_DELAY_MS
         THEN req' = Reject(s, r, 429, "Cooldown")
         ELSE req' = [req EXCEPT ![s] = [r EXCEPT !.pc = "update", !.t = now]]
  /\ UNCHANGED <<gifts, now, counters>>

\* the request arrives and its select resolves: 404 / already claimed (409;
\* 400 in the first registerRoutes) / cooldown 429, else the update is issued
\* with claimedAt = new Date() taken here, before the update is awaited.
\* (The arrival reads and writes no shared state, so it is one step with the
\* select.)
ClaimLoad(s, pid) ==
  LET r == [Idle EXCEPT !.op = "claim", !.h = rev, !.pid = pid] IN
  /\ CanStart(s, MaxReqs)
  /\ IF ~HasGift(gifts, pid)
       THEN req' = Reject(s, r, 404, "NotFound")
       ELSE LET row == getGift(gifts, pid) IN
            IF row.isClaimed
              THEN req' = Reject(s, r, IF rev = "legacy" THEN 400 ELSE 409,
                                 "AlreadyClaimed")
              ELSE IF rev = "routes" /\ now - row.createdAt < MIN_CLAIM_DELAY_MS
                THEN req' = Reject(s, r, 429, "Cooldown")
                ELSE req' = [req EXCEPT ![s] = [r EXCEPT !.pc = "update", !.t = now]]
  /\ UNCHANGED <<gifts, now, counters>>

\* the update resolves and the handler answers 200
ClaimUpdate(s) ==
  /\ req[s].op = "claim"
  /\ req[s].pc = "update"
  /\ gifts' = IF rev = "v14"
                THEN updateClaimed(gifts, req[s].pid, req[s].t)
                ELSE claimGift(gifts, req[s].pid, req[s].t)
  /\ req' = [req EXCEPT ![s].pc = "done", ![s].status = 200]
  /\ UNCHANGED <<now, counters>>

(* --------------------------- GET /claim/:publicId --------------------- *)
\* the claim page of the storage-based revision: it loads the gift and,
\* when the gift is unclaimed and past the cooldown, claims it
ViewLoad(s, pid) ==
  LET r == [Idle EXCEPT !.op = "view", !.h = rev, !.pid = pid] IN
  /\ rev = "routes"
  /\ CanStart(s, MaxReqs)
  /\ IF ~HasGift(gifts, pid)
       THEN req' = Reject(s, r, 404, "NotFound")
       ELSE LET row == getGift(gifts, pid) IN
            IF row.isClaimed
              THEN req' = Reject(s, r, 200, "AlreadyClaimed")
              ELSE IF now - row.createdAt < MIN_CLAIM_DELAY_MS
                THEN req' = Reject(s, r, 429, "Cooldown")
                ELSE req' = [req EXCEPT ![s] = [r EXCEPT !.pc = "update", !.t = now]]
  /\ UNCHANGED <<gifts, now, counters>>

ViewUpdate(s) ==
  /\ req[s].op = "view"
  /\ req[s].pc = "update"
  /\ gifts' = claimGift(gifts, req[s].pid, req[s].t)
  /\ req' = [req EXCEPT ![s].pc = "done", ![s].status = 200]
  /\ UNCHANGED <<now, counters>>

(* --------------------------- GET /api/gifts/:publicId ----------------- *)
\* a get handler that marks the row it serves as claimed
Get_claims(s, pid) ==
  /\ CanStart(s, MaxReqs)
  /\ req' = [req EXCEPT ![s] =
       [Idle EXCEPT !.op = "get", !.h = rev, !.pid = pid, !.pc = "done",
                    !.status = IF HasGift(gifts, pid) THEN 200 ELSE 404,
                    !.why = IF HasGift(gifts, pid) THEN "none" ELSE "NotFound",
                    !.seen = IF HasGift(gifts, pid)
                               THEN getGift(gifts, pid) ELSE NoRow]]
  /\ gifts' = claimGift(gifts, pid, now)
  /\ UNCHANGED <<now, counters>>

\* one select, then 404 or 200 with the row (seen: the row served)
Get(s, pid) ==
  /\ CanStart(s, MaxReqs)
  /\ req' = [req EXCEPT ![s] =
       [Idle EXCEPT !.op = "get", !.h = rev, !.pid = pid, !.pc = "done",
                    !.status = IF HasGift(gifts, pid) THEN 200 ELSE 404,
                    !.why = IF HasGift(gifts, pid) THEN "none" ELSE "NotFound",
                    !.seen = IF HasGift(gifts, pid)
                               THEN getGift(gifts, pid) ELSE NoRow]]
  /\ UNCHANGED <<gifts, now, counters>>

(* --------------------------- daily counters --------------------------- *)
\* utcDayKey: the UTC calendar day of clock value t
utcDayKey(t) == t \div DayLen

\* startOfNextDay: the first clock value of the day after t
startOfNextDay(t) == (utcDayKey(t) + 1) * DayLen

\* map.get(key) of a key that was never set
NoBucket == [dayKey |-> NULL, count |-> 0]

NoCounter == [count |-> 0, resetAt |-> NULL]

\* bumpDaily rejecting only above the limit (> for >=)
bumpDaily_offByOne(map, key, limit, t) ==
  LET today == t \div DayLen
      existing == map[key]
  IN  IF existing = [dayKey |-> NULL, count |-> 0] \/ existing.dayKey # today
        THEN [ok |-> TRUE,
              map |-> [map EXCEPT ![key] = [dayKey |-> today, count |-> 1]]]
        ELSE IF existing.count > limit
          THEN [ok |-> FALSE, map |-> map]
          ELSE [ok |-> TRUE, map |-> [map EXCEPT ![key].count = @ + 1]]

\* bumpDaily that never compares the bucket's day with today
bumpDaily_noReset(map, key, limit, t) ==
  LET today == t \div DayLen
      existing == map[key]
  IN  IF existing = [dayKey |-> NULL, count |-> 0]
        THEN [ok |-> TRUE,
              map |-> [map EXCEPT ![key] = [dayKey |-> today, count |-> 1]]]
        ELSE IF existing.count >= limit
          THEN [ok |-> FALSE, map |-> map]
          ELSE [ok |-> TRUE, map |-> [map EXCEPT ![key].count = @ + 1]]

\* bumpDaily(map, key, limit) at clock value t: the result and the map after
bumpDaily(map, key, limit, t) ==
  LET today == utcDayKey(t)
      existing == map[key]
  IN  IF existing = NoBucket \/ existing.dayKey # today
        THEN [ok |-> TRUE,
              map |-> [map EXCEPT ![key] = [dayKey |-> today, count |-> 1]]]
        ELSE IF existing.count >= limit
          THEN [ok |-> FALSE, map |-> map]
          ELSE [ok |-> TRUE, map |-> [map EXCEPT ![key].count = @ + 1]]

\* getDailyCount(map, key) at clock value t
getDailyCount(map, key, t) ==
  IF map[key] = NoBucket \/ map[key].dayKey # utcDayKey(t) THEN 0
  ELSE map[key].count

\* hitCounter(map, key, max) at clock value t: the result and the map after
hitCounter(map, key, max, t) ==
  LET cur == map[key]
  IN  IF cur = NoCounter \/ cur.resetAt <= t
        THEN [ok |-> TRUE,
              map |-> [map EXCEPT ![key] =
                         [count |-> 1, resetAt |-> startOfNextDay(t)]]]
        ELSE [ok |-> cur.count + 1 <= max,
              map |-> [map EXCEPT ![key].count = @ + 1]]

(* ----------------------------- POST /api/gifts ------------------------ *)
\* ids that rows or pending inserts hold
UsedIds ==
  {row.publicId : row \in gifts} \cup
  {req[s].pid : s \in {r \in Slots : req[r].op = "create" /\ req[r].pc = "insert"}}

\* crypto.randomBytes(6).toString("hex"): a value no row or pending insert
\* holds, or (a collision) one of those that are held
FreshId ==
  LET free == {n \in 1 .. Len(IdPool) : IdPool[n] \notin UsedIds}
  IN  IdPool[CHOOSE n \in free : \A m \in free : n <= m]

RandomIds == {FreshId} \cup (UsedIds \ {DemoId, "none"})

\* CreateGiftSchema with an exclusive minimum of the amount
CreateGiftSchema_exclusiveMin(email, msg, amount) ==
  /\ IsEmail(email)
  /\ Len(msg) >= 1 /\ Len(msg) <= 1000
  /\ amount > 1000

\* CreateGiftSchema.safeParse of the v14 revision
CreateGiftSchema(email, msg, amount) ==
  /\ IsEmail(email)
  /\ Len(msg) >= 1 /\ Len(msg) <= 1000
  /\ amount >= 1000

\* insertGiftSchema (api.gifts.create.input) of the storage-based revision
insertGiftSchema(email, msg, amount) ==
  /\ amount >= 1000
  /\ amount <= 100000

\* the part of the blocklists that the addresses above can hit
BLOCKED_DOMAINS == {"mailinator.com", "yopmail.com"}

\* getEmailDomain of the v14 revision: trim, lower-case, then the text after
\* the last '@'
getEmailDomain(email) ==
  LET p == AtParts(Normalize(email))
  IN  IF Len(p) = 1 THEN "" ELSE p[Len(p)]

\* getDomain of the storage-based revisions: the text after the last '@',
\* lower-cased
getDomain(email) ==
  LET p == AtParts(email)
  IN  IF Len(p) = 1 THEN "" ELSE ToLower(p[Len(p)])

\* isDisposableEmail of the v14 revision (DISPOSABLE_BLOCK_ENABLED)
isDisposableEmailV14(email) ==
  IF ~env.disposableBlock THEN FALSE
  ELSE IF getEmailDomain(email) = "" THEN FALSE
  ELSE getEmailDomain(email) \in BLOCKED_DOMAINS

\* isDisposableEmail of server/routes.ts (ENABLE_DISPOSABLE_BLOCK); none of
\* the domains above contains "tempmail" or "trashmail"
isDisposableEmail(email) ==
  IF ~env.disposableBlock THEN FALSE
  ELSE IF getDomain(email) = "" THEN TRUE
  ELSE getDomain(email) \in BLOCKED_DOMAINS

\* isDisposableEmail of the earlier storage-based revision: the empty domain
\* is tested before the flag
isDisposableEmailP5(email) ==
  IF getDomain(email) = "" THEN TRUE
  ELSE IF ~env.disposableBlock THEN FALSE
  ELSE getDomain(email) \in BLOCKED_DOMAINS

\* v14: the synchronous part of the handler, from the arrival of the request
\* to the await of db.insert: schema, disposable block, bumpDaily per IP,
\* bumpDaily per recipient, publicId
CreateV14(s, max, ip, email, msg, amount, pid) ==
  LET r == [Idle EXCEPT !.op = "create", !.h = "v14", !.ip = ip,
                        !.body = [message |-> msg, amount |-> amount],
                        !.email = email, !.msg = msg, !.amount = amount,
                        !.day = utcDayKey(now)]
      ipBump == bumpDaily(dailyByIp, ip, DAILY_IP_LIMIT, now)
      recBump == bumpDaily(dailyByRecipient, Normalize(email),
                           DAILY_RECIPIENT_LIMIT, now)
  IN
  /\ rev = "v14"
  /\ CanStart(s, max)
  /\ IF ~CreateGiftSchema(email, msg, amount)
       THEN /\ req' = Reject(s, r, 400, "schema")
            /\ UNCHANGED <<dailyByIp, dailyByRecipient>>
       ELSE IF isDisposableEmailV14(email)
       THEN /\ req' = Reject(s, r, 400, "disposable")
            /\ UNCHANGED <<dailyByIp, dailyByRecipient>>
       ELSE IF ~ipBump.ok
       THEN /\ req' = Reject(s, r, 429, "ip")
            /\ dailyByIp' = ipBump.map
            /\ UNCHANGED dailyByRecipient
       ELSE IF ~recBump.ok
       THEN /\ req' = Reject(s, r, 429, "recipient")
            /\ dailyByIp' = ipBump.map
            /\ dailyByRecipient' = recBump.map
       ELSE /\ req' = [req EXCEPT ![s] = [r EXCEPT !.pc = "insert", !.pid = pid]]
            /\ dailyByIp' = ipBump.map
            /\ dailyByRecipient' = recBump.map
  /\ UNCHANGED <<gifts, now, rev, env, ipDaily, emailDaily, mailer>>

\* verifyTurnstile that sends no request for an empty token and lets it pass
verifyTurnstile_emptyTokenPasses(token) ==
  IF ~env.turnstile THEN "skipped"
  ELSE IF token = "" THEN "skipped"
  ELSE "fetch"

\* verifyTurnstile before its fetch: skipped without TURNSTILE_SECRET_KEY,
\* failed without a token, else the verdict of siteverify is awaited
verifyTurnstile(token) ==
  IF ~env.turnstile THEN "skipped"
  ELSE IF token = "" THEN "missing_token"
  ELSE "fetch"

\* the request record of a storage-based creation handler
RoutesRequest(ip, email, msg, amount) ==
  [Idle EXCEPT !.op = "create", !.h = rev, !.ip = ip,
               !.body = [message |-> msg, amount |-> amount],
               !.email = Normalize(email), !.msg = Trim(msg),
               !.amount = amount, !.day = utcDayKey(now)]

\* server/routes.ts after the CAPTCHA: the synchronous part of the handler
\* up to the await of storage.createGift: hitCounter per IP, hitCounter per
\* recipient, disposable block, amount, message, schema.  (The body carries
\* recipientEmail and amount; ENFORCE_PRICE_TIERS is not set.)
RoutesGuards(s, q, pid) ==
  LET r == [q EXCEPT !.day = utcDayKey(now)]
      ipHit == hitCounter(ipDaily, r.ip, DAILY_MAX_PER_IP, now)
      emailHit == hitCounter(emailDaily, r.email, DAILY_MAX_PER_EMAIL, now)
  IN
  IF ~ipHit.ok
    THEN /\ req' = Reject(s, r, 429, "ip")
         /\ ipDaily' = ipHit.map
         /\ UNCHANGED emailDaily
    ELSE IF ~emailHit.ok
    THEN /\ req' = Reject(s, r, 429, "recipient")
         /\ ipDaily' = ipHit.map
         /\ emailDaily' = emailHit.map
    ELSE IF isDisposableEmail(r.email)
    THEN /\ req' = Reject(s, r, 400, "disposable")
         /\ ipDaily' = ipHit.map
         /\ emailDaily' = emailHit.map
    ELSE IF r.amount <= 0 \/ r.amount < MIN_AMOUNT_CENTS
              \/ Len(r.body.message) > 3000
              \/ ~insertGiftSchema(r.email, r.msg, r.amount)
    THEN /\ req' = Reject(s, r, 400, "schema")
         /\ ipDaily' = ipHit.map
         /\ emailDaily' = emailHit.map
    ELSE /\ req' = [req EXCEPT ![s] = [r EXCEPT !.pc = "insert", !.pid = pid]]
         /\ ipDaily' = ipHit.map
         /\ emailDaily' = emailHit.map

\* the earlier storage-based revision after the CAPTCHA: disposable block,
\* amount, message, schema; it keeps no daily counters
P5Guards(s, r, pid) ==
  /\ IF isDisposableEmailP5(r.email)
       THEN req' = Reject(s, r, 400, "disposable")
       ELSE IF r.amount <= 0 \/ r.amount < MIN_AMOUNT_CENTS
                 \/ Len(r.body.message) > 3000
                 \/ ~insertGiftSchema(r.email, r.msg, r.amount)
       THEN req' = Reject(s, r, 400, "schema")
       ELSE req' = [req EXCEPT ![s] = [r EXCEPT !.pc = "insert", !.pid = pid]]
  /\ UNCHANGED <<ipDaily, emailDaily>>

\* a storage-based handler from the arrival of the request: verifyTurnstile,
\* then (CAPTCHA skipped) its guards in the same synchronous step, or the
\* await of siteverify
CreateRoutes(s, max, ip, email, msg, amount, token, pid) ==
  LET r == RoutesRequest(ip, email, msg, amount) IN
  /\ rev \in {"routes", "part005"}
  /\ CanStart(s, max)
  /\ CASE verifyTurnstile(token) = "missing_token" ->
            /\ req' = Reject(s, [r EXCEPT !.captcha = "missing_token"], 400,
                             "captcha")
            /\ UNCHANGED <<ipDaily, emailDaily>>
       [] verifyTurnstile(token) = "fetch" ->
            /\ req' = [req EXCEPT ![s] =
                        [r EXCEPT !.pc = "captcha", !.captcha = "fetch"]]
            /\ UNCHANGED <<ipDaily, emailDaily>>
       [] OTHER ->
            IF rev = "routes"
              THEN RoutesGuards(s, [r EXCEPT !.captcha = "skipped"], pid)
              ELSE P5Guards(s, [r EXCEPT !.captcha = "skipped"], pid)
  /\ UNCHANGED <<gifts, now, rev, env, dailyByIp, dailyByRecipient, mailer>>

\* siteverify answers: on failure 400, on success the guards of the handler
CaptchaDone(s, success, pid) ==
  /\ req[s].op = "create"
  /\ req[s].pc = "captcha"
  /\ IF ~success
       THEN /\ req' = Reject(s, [req[s] EXCEPT !.captcha = "failed"], 400,
                             "captcha")
            /\ UNCHANGED <<ipDaily, emailDaily>>
       ELSE IF rev = "routes"
         THEN RoutesGuards(s, [req[s] EXCEPT !.captcha = "ok"], pid)
         ELSE P5Guards(s, [req[s] EXCEPT !.captcha = "ok"], pid)
  /\ UNCHANGED <<gifts, now, rev, env, dailyByIp, dailyByRecipient, mailer,
               hits>>

\* an insert into a table whose public_id column is not unique
CreateInsert_noUnique(s) ==
  /\ req[s].op = "create"
  /\ req[s].pc = "insert"
  /\ gifts' = gifts \cup {Gift(req[s].pid, req[s].email, req[s].msg,
                                req[s].amount, now)}
  /\ req' = [req EXCEPT ![s].pc = "email", ![s].gift = req[s].pid,
                        ![s].mail = "pending",
                        ![s].status = IF req[s].h = "v14" THEN 200 ELSE 0]
  /\ UNCHANGED <<now, counters>>

\* the insert resolves (public_id is unique: no row holds the id yet): the
\* row is in the table (created_at defaults to now()).  v14 answers 200 and starts the background email; the
\* storage-based revision awaits sendGiftEmail before it answers
CreateInsert(s) ==
  /\ req[s].op = "create"
  /\ req[s].pc = "insert"
  /\ ~HasGift(gifts, req[s].pid)
  /\ gifts' = gifts \cup {Gift(req[s].pid, req[s].email, req[s].msg,
                                req[s].amount, now)}
  /\ req' = [req EXCEPT ![s].pc = "email", ![s].gift = req[s].pid,
                        ![s].mail = "pending",
                        ![s].sent = Append(req[s].sent,
                                           MailArgs(req[s].email, req[s].pid,
                                                    req[s].msg, req[s].amount)),
                        ![s].status = IF req[s].h = "v14" THEN 200 ELSE 0]
  /\ UNCHANGED <<now, counters>>

\* a handler that sends the email although the insert was rejected
CreateInsertFail_dispatches(s, forwarded) ==
  /\ req[s].op = "create"
  /\ req[s].pc = "insert"
  /\ req' = [req EXCEPT ![s].pc = "email", ![s].mail = "pending",
                        ![s].sent = Append(req[s].sent,
                                           MailArgs(req[s].email, req[s].pid,
                                                    req[s].msg, req[s].amount))]
  /\ UNCHANGED <<gifts, now, counters>>

\* the insert rejects (unique violation of public_id, or the database is
\* unreachable).  v14 has no try/catch around the insert: the promise of the
\* async handler rejects, and it depends on the router whether that reaches
\* the error middleware of server/index.ts (forwarded: 500) or nothing is
\* written to the response; the storage-based revisions answer 500 from
\* their catch block
CreateInsertFail(s, forwarded) ==
  /\ req[s].op = "create"
  /\ req[s].pc = "insert"
  /\ req' = Reject(s, req[s],
                   IF req[s].h = "v14" /\ ~forwarded THEN 0 ELSE 500, "insert")
  /\ UNCHANGED <<gifts, now, counters>>

\* a handler that reports a failed email as a validation error
EmailDone_400(s, outcome) ==
  /\ req[s].op = "create"
  /\ req[s].pc = "email"
  /\ req' = [req EXCEPT
       ![s].pc = "done",
       ![s].mail = outcome,
       ![s].status = IF outcome = "ok" THEN 201 ELSE 400,
       ![s].why = IF outcome # "ok" THEN "email" ELSE req[s].why]
  /\ UNCHANGED <<gifts, now, counters>>

\* sendGiftEmail settles.  v14 only logs the result; the storage-based
\* revision answers 201 when the call returns and 500 when it throws
EmailDone(s, outcome) ==
  /\ req[s].op = "create"
  /\ req[s].pc = "email"
  /\ req' = [req EXCEPT
       ![s].pc = "done",
       ![s].mail = outcome,
       ![s].status = IF req[s].h = "v14" THEN req[s].status
                     ELSE IF outcome = "ok" THEN 201 ELSE 500,
       ![s].why = IF req[s].h = "routes" /\ outcome # "ok"
                    THEN "email" ELSE req[s].why]
  /\ UNCHANGED <<gifts, now, counters>>

\* POST /api/send of the first registerRoutes: a test message through
\* sendGiftEmail, with a fixed claim link and amount 0
SendTest(s, max, to, msg) ==
  LET r == [Idle EXCEPT !.op = "send", !.h = rev, !.email = to, !.msg = msg]
  IN
  /\ rev = "legacy"
  /\ CanStart(s, max)
  /\ req' = IF to = "" \/ msg = ""
              THEN Reject(s, r, 400, "schema")
              ELSE [req EXCEPT ![s] =
                      [r EXCEPT !.pc = "email", !.mail = "pending",
                                !.sent = <<MailArgs(to, "test", msg, 0)>>]]
  /\ UNCHANGED <<gifts, now, counters>>

\* the test message settles: 200, or 500 from the catch block
SendTestDone(s, outcome) ==
  /\ req[s].op = "send"
  /\ req[s].pc = "email"
  /\ req' = [req EXCEPT ![s].pc = "done", ![s].mail = outcome,
                        ![s].status = IF outcome = "ok" THEN 200 ELSE 500,
                        ![s].why = IF outcome = "ok" THEN "none" ELSE "email"]
  /\ UNCHANGED <<gifts, now, counters>>

(* ----------------------------- sendGiftEmail -------------------------- *)
\* the loop bound of sendGiftEmail
maxAttempts == 2

\* the draft of sendGiftEmail a revision is written against: v14 passes one
\* object (server/email.ts), the storage-based handlers pass four
\* positional arguments (the draft that calls the Brevo SDK)
MailVariant == IF rev = "v14" THEN "email.ts" ELSE "part_014"

\* recipient arguments: well-formed, padded, without a dot after the @,
\* without an @, empty
MailTo == {"amy@example.com", " amy@example.com ", "amy@localhost", "amy", ""}

\* String.trim() on the recipients above
MailTrim(to) == IF to = " amy@example.com " THEN "amy@example.com" ELSE to

\* /^[^\s@]+@[^\s@]+\.[^\s@]+$/ on the trimmed recipients above
isEmail(to) ==
  LET p == AtParts(MailTrim(to))
  IN  Len(p) = 2 /\ p[2] \in {"example.com"}

\* what one request to the provider comes to: an HTTP status, or status 0
\* and the message of the error fetch threw (an abort by the timer of
\* fetchWithTimeout, a socket error, a failed DNS lookup)
Replies ==
  {[status |-> c, msg |-> ""] : c \in {201, 400, 401, 403, 429, 500, 503}}
  \cup {[status |-> 0, msg |-> m] :
          m \in {"This operation was aborted", "network timeout",
                 "getaddrinfo ENOTFOUND api.brevo.com"}}

\* Response.ok
RespOk(reply) == reply.status >= 200 /\ reply.status <= 299

\* a loop that takes every failed attempt for a retryable one
retryable_always(reply) == ~RespOk(reply)

\* the two `retryable` tests of the loop: on a response, 429 or 5xx; on a
\* thrown error, /abort/i, /timeout/i or /network/i on its message
retryable(reply) ==
  IF reply.status # 0
    THEN reply.status = 429 \/ reply.status >= 500
    ELSE reply.msg \in {"This operation was aborted", "network timeout"}

\* no invocation yet
NoMailer ==
  [pc |-> "idle", variant |-> "none", to |-> "none", apiKey |-> FALSE,
   fromEmail |-> FALSE, attempt |-> 0, log |-> <<>>, result |-> "none"]

\* sendGiftEmail is called: up to its first request
SendStart(to, apiKey, fromEmail) ==
  LET m == [NoMailer EXCEPT !.variant = MailVariant, !.to = to,
                            !.apiKey = apiKey, !.fromEmail = fromEmail]
  IN
  /\ mailer.pc = "idle"
  /\ mailer' =
       IF MailVariant = "email.ts"
         THEN IF ~isEmail(to) \/ ~apiKey \/ ~fromEmail
                THEN [m EXCEPT !.pc = "returned", !.result = "ok:false"]
                ELSE [m EXCEPT !.pc = "fetch", !.attempt = 1]
         ELSE IF ~apiKey \/ ~fromEmail
                THEN [m EXCEPT !.pc = "thrown"]
                ELSE [m EXCEPT !.pc = "fetch", !.attempt = 1]
  /\ UNCHANGED <<gifts, now, req, rev, env, dailyByIp, dailyByRecipient,
                 ipDaily, emailDaily, hits>>

\* the request of the current attempt settles
FetchDone(reply) ==
  /\ mailer.pc = "fetch"
  /\ mailer' =
       LET m == [mailer EXCEPT !.log = Append(mailer.log, reply)]
       IN
       IF mailer.variant = "email.ts"
         THEN IF RespOk(reply)
                THEN [m EXCEPT !.pc = "returned", !.result = "ok:true"]
              ELSE IF retryable(reply) /\ mailer.attempt < maxAttempts
                THEN [m EXCEPT !.pc = "sleep"]
              ELSE [m EXCEPT !.pc = "returned", !.result = "ok:false"]
         ELSE IF RespOk(reply)
                THEN [m EXCEPT !.pc = "returned", !.result = "undefined"]
                ELSE [m EXCEPT !.pc = "thrown"]
  /\ UNCHANGED <<gifts, now, req, rev, env, dailyByIp, dailyByRecipient,
                 ipDaily, emailDaily, hits>>

\* sleep(350) is over: the loop goes round
SleepDone ==
  /\ mailer.pc = "sleep"
  /\ mailer' = [mailer EXCEPT !.pc = "fetch", !.attempt = mailer.attempt + 1]
  /\ UNCHANGED <<gifts, now, req, rev, env, dailyByIp, dailyByRecipient,
                 ipDaily, emailDaily, hits>>

(* ------------------------------ burst limiter ------------------------- *)
\* no entry of the Map under a key
NoHits == [count |-> 0, resetAt |-> NULL]

\* a limiter that starts a new window whenever it turns a request away
createRateLimiter_restartOnReject(map, key, t) ==
  LET current == map[key]
  IN  IF current = NoHits \/ current.resetAt <= t
           \/ current.count + 1 > BURST_MAX
        THEN [next |-> current = NoHits \/ current.resetAt <= t,
              map |-> [map EXCEPT ![key] =
                         [count |-> 1, resetAt |-> t + BURST_WINDOW]]]
        ELSE [next |-> TRUE, map |-> [map EXCEPT ![key].count = @ + 1]]

\* giftLimiter = createRateLimiter({windowMs, max}) on a request of key at
\* clock value t: whether next() is called, and the Map after
createRateLimiter(map, key, t) ==
  LET current == map[key]
  IN  IF current = NoHits \/ current.resetAt <= t
        THEN [next |-> TRUE,
              map |-> [map EXCEPT ![key] =
                         [count |-> 1, resetAt |-> t + BURST_WINDOW]]]
        ELSE [next |-> current.count + 1 <= BURST_MAX,
              map |-> [map EXCEPT ![key].count = @ + 1]]

\* the clock of the burst specification
BurstTick ==
  /\ now < BURST_WINDOW + 1
  /\ now' = now + 1
  /\ UNCHANGED <<gifts, req, counters>>

\* POST /api/gifts behind app.use("/api/gifts", giftLimiter): the limiter
\* answers 429 itself or calls next(), which runs the create handler
LimitedCreate(s, ip, email, msg, amount, pid) ==
  LET hit == createRateLimiter(hits, ip, now)
      r == [Idle EXCEPT !.op = "create", !.h = rev, !.ip = ip,
                        !.day = utcDayKey(now)]
  IN
  /\ rev = "routes"
  /\ hits' = hit.map
  /\ IF hit.next
       THEN CreateRoutes(s, MaxBurst, ip, email, msg, amount, "", pid)
       ELSE /\ CanStart(s, MaxBurst)
            /\ req' = Reject(s, r, 429, "burst")
            /\ UNCHANGED <<gifts, now, rev, env, dailyByIp, dailyByRecipient,
                           ipDaily, emailDaily, mailer>>

(* ------------------------------ lifecycle ----------------------------- *)
Init ==
  /\ gifts = {SeedRow}
  /\ now = 0
  /\ rev \in Handlers
  /\ env = [disposableBlock |-> rev = "v14", turnstile |-> FALSE]
  /\ req = [s \in Slots |-> Idle]
  /\ dailyByIp = [k \in Ips |-> NoBucket]
  /\ dailyByRecipient = [k \in Recipients |-> NoBucket]
  /\ ipDaily = [k \in Ips |-> NoCounter]
  /\ emailDaily = [k \in Recipients |-> NoCounter]
  /\ mailer = NoMailer
  /\ hits = [k \in Ips |-> NoHits]

Next ==
  \/ Tick
  \/ \E s \in Slots, pid \in AllIds : ClaimLoad(s, pid)
  \/ \E s \in Slots : ClaimUpdate(s)
  \/ \E s \in Slots, pid \in AllIds : ViewLoad(s, pid)
  \/ \E s \in Slots : ViewUpdate(s)
  \/ \E s \in Slots, pid \in AllIds : Get(s, pid)
  \/ \E s \in Slots, ip \in Ips, pid \in RandomIds :
       /\ CreateV14(s, MaxReqs, ip, "Amy@Example.com", " hello ", 1000, pid)
       /\ UNCHANGED hits
  \/ \E s \in Slots, ip \in Ips, pid \in RandomIds :
       /\ CreateRoutes(s, MaxReqs, ip, "Amy@Example.com", " hello ", 1000, "", pid)
       /\ UNCHANGED hits
  \/ \E s \in Slots : CreateInsert(s)
  \/ \E s \in Slots : CreateInsertFail(s, FALSE)
  \/ \E s \in Slots : EmailDone(s, "ok")

Spec == Init /\ [][Next]_vars

(* ------------------------------ creation ------------------------------ *)
NextCreate ==
  \/ Midnight
  \/ \E s \in Slots, ip \in Ips, e \in Emails :
       /\ CreateV14(s, MaxCreates, ip, e, "hello", 1000, FreshId)
       /\ UNCHANGED hits
  \/ \E s \in Slots, ip \in Ips, e \in Emails :
       /\ CreateRoutes(s, MaxCreates, ip, e, "hello", 1000, "", FreshId)
       /\ UNCHANGED hits
  \/ \E s \in Slots : CreateInsert(s)
  \/ \E s \in Slots : CreateInsertFail(s, FALSE)
  \/ \E s \in Slots, o \in {"ok", "failed"} : EmailDone(s, o)

SpecCreate == Init /\ [][NextCreate]_vars

(* ------------------------------- guards ------------------------------- *)
\* the revisions with a creation handler, under every setting of the
\* disposable block and of the CAPTCHA (v14 has no CAPTCHA)
InitGuards ==
  /\ gifts = {SeedRow}
  /\ now = 0
  /\ rev \in {"v14", "routes", "part005"}
  /\ env \in [disposableBlock : BOOLEAN, turnstile : BOOLEAN]
  /\ rev = "v14" => ~env.turnstile
  /\ req = [s \in Slots |-> Idle]
  /\ dailyByIp = [k \in Ips |-> NoBucket]
  /\ dailyByRecipient = [k \in Recipients |-> NoBucket]
  /\ ipDaily = [k \in Ips |-> NoCounter]
  /\ emailDaily = [k \in Recipients |-> NoCounter]
  /\ mailer = NoMailer
  /\ hits = [k \in Ips |-> NoHits]

NextGuards ==
  \/ \E s \in Slots, ip \in Ips, e \in GuardEmails, a \in Amounts :
       /\ CreateV14(s, MaxGuards, ip, e, "hello", a, FreshId)
       /\ UNCHANGED hits
  \/ \E s \in Slots, ip \in Ips, e \in GuardEmails, a \in Amounts,
        t \in Tokens :
       /\ CreateRoutes(s, MaxGuards, ip, e, "hello", a, t, FreshId)
       /\ UNCHANGED hits
  \/ \E s \in Slots, success \in BOOLEAN : CaptchaDone(s, success, FreshId)
  \/ \E s \in Slots : CreateInsert(s)
  \/ \E s \in Slots, f \in BOOLEAN : CreateInsertFail(s, f)
  \/ \E s \in Slots, o \in {"ok", "failed"} : EmailDone(s, o)

SpecGuards == InitGuards /\ [][NextGuards]_vars

(* -------------------------------- bursts ------------------------------ *)
InitBurst == Init /\ rev = "routes"

NextBurst ==
  \/ BurstTick
  \/ \E s \in Slots, ip \in Ips :
       LimitedCreate(s, ip, "amy@example.com", "hello", 1000, FreshId)
  \/ \E s \in Slots : CreateInsert(s)
  \/ \E s \in Slots : EmailDone(s, "ok")

SpecBurst == InitBurst /\ [][NextBurst]_vars

(* ------------------------------ dispatches ---------------------------- *)
NextDispatch ==
  \/ \E s \in Slots, ip \in Ips, e \in GuardEmails, a \in Amounts :
       /\ CreateV14(s, MaxGuards, ip, e, " hello ", a, FreshId)
       /\ UNCHANGED hits
  \/ \E s \in Slots, ip \in Ips, e \in GuardEmails, a \in Amounts :
       /\ CreateRoutes(s, MaxGuards, ip, e, " hello ", a, "", FreshId)
       /\ UNCHANGED hits
  \/ \E s \in Slots : CreateInsert(s)
  \/ \E s \in Slots : CreateInsertFail(s, TRUE)
  \/ \E s \in Slots, o \in {"ok", "failed"} : EmailDone(s, o)
  \/ \E s \in Slots, to \in {"", "amy@example.com"} :
       SendTest(s, MaxGuards, to, "hello")
  \/ \E s \in Slots, o \in {"ok", "failed"} : SendTestDone(s, o)

SpecDispatch == Init /\ [][NextDispatch]_vars

(* ------------------------- one email invocation ----------------------- *)
NextEmail ==
  \/ \E to \in MailTo, k \in BOOLEAN, f \in BOOLEAN : SendStart(to, k, f)
  \/ \E reply \in Replies : FetchDone(reply)
  \/ SleepDone

SpecEmail == Init /\ [][NextEmail]_vars

(* ------------------------- outbound calls, fair ----------------------- *)
\* the guards specification with the rejected insert forwarded to the error
\* middleware, so that the only waits left are the two outbound calls
NextLive ==
  \/ \E s \in Slots, ip \in Ips, e \in GuardEmails, a \in Amounts :
       /\ CreateV14(s, MaxGuards, ip, e, "hello", a, FreshId)
       /\ UNCHANGED hits
  \/ \E s \in Slots, ip \in Ips, e \in GuardEmails, a \in Amounts,
        t \in Tokens :
       /\ CreateRoutes(s, MaxGuards, ip, e, "hello", a, t, FreshId)
       /\ UNCHANGED hits
  \/ \E s \in Slots, success \in BOOLEAN : CaptchaDone(s, success, FreshId)
  \/ \E s \in Slots : CreateInsert(s)
  \/ \E s \in Slots : CreateInsertFail(s, TRUE)
  \/ \E s \in Slots, o \in {"ok", "failed"} : EmailDone(s, o)

\* what the runtime guarantees: the database answers, and sendGiftEmail
\* settles (fetchWithTimeout aborts its request, withTimeout rejects after
\* 10 s).  The fetch of verifyTurnstile carries no signal and no timer, so
\* nothing guarantees that CaptchaDone ever happens
LiveFairness ==
  \A s \in Slots :
    /\ WF_vars(CreateInsert(s) \/ CreateInsertFail(s, TRUE))
    /\ WF_vars(\E o \in {"ok", "failed"} : EmailDone(s, o))

SpecLive == InitGuards /\ [][NextLive]_vars /\ LiveFairness

(* ============================ properties ============================== *)
Done(s) == req[s].pc = "done"

\* the claim requests for publicId pid that were answered with code
ClaimsAnswered(pid, code) ==
  {s \in Slots : req[s].op = "claim" /\ req[s].pid = pid /\ Done(s)
                 /\ req[s].status = code}

\* C1: of the claim requests for one publicId, in any interleaving, at most
\* one is answered with success (200); the others are answered 409
C1_OneClaimSucceeds ==
  \A pid \in AllIds : Cardinality(ClaimsAnswered(pid, 200)) <= 1

\* C2: once claimedAt of a row is non-null, no step changes it
C2_ClaimedAtSetOnce ==
  [][\A row \in gifts :
       row.claimedAt # NULL =>
         \E after \in gifts' : /\ after.publicId = row.publicId
                               /\ after.claimedAt = row.claimedAt]_vars

\* C3: no step takes isClaimed of a row from true to false (and no step
\* removes a claimed row)
C3_NeverUnclaimed ==
  [][\A row \in gifts :
       row.isClaimed =>
         /\ HasGift(gifts', row.publicId)
         /\ \A after \in gifts' :
              after.publicId = row.publicId => after.isClaimed]_vars

\* two requests have both written their update to the same, claimed row
C3_Witness ==
  \E s, r \in Slots :
    /\ s # r
    /\ req[s].op \in {"claim", "view"} /\ req[r].op \in {"claim", "view"}
    /\ req[s].pid = req[r].pid
    /\ Done(s) /\ Done(r) /\ req[s].t # NULL /\ req[r].t # NULL
    /\ \E row \in gifts : row.publicId = req[s].pid /\ row.isClaimed

\* C4: in every row, claimedAt is non-null exactly when isClaimed is true
C4_ClaimedAtIffClaimed ==
  \A row \in gifts : (row.claimedAt # NULL) <=> row.isClaimed

\* the demo row was claimed while a created row is still unclaimed
C4_Witness ==
  /\ \E row \in gifts : /\ row.publicId = DemoId
                         /\ row.isClaimed /\ row.claimedAt # NULL
  /\ \E row \in gifts : /\ row.publicId # DemoId
                         /\ ~row.isClaimed /\ row.claimedAt = NULL

(* ------------------------ creation: daily quota ----------------------- *)
Creates == {s \in Slots : req[s].op = "create"}

Days == 0 .. utcDayKey(MaxTime)

IpLimit == IF rev = "v14" THEN DAILY_IP_LIMIT ELSE DAILY_MAX_PER_IP

RecLimit == IF rev = "v14" THEN DAILY_RECIPIENT_LIMIT ELSE DAILY_MAX_PER_EMAIL

\* the count the deployed revision holds for a key at clock value t
IpCountAt(byIp, ipD, k, t) ==
  IF rev = "v14" THEN getDailyCount(byIp, k, t)
  ELSE IF ipD[k] = NoCounter \/ ipD[k].resetAt <= t THEN 0 ELSE ipD[k].count

RecCountAt(byRec, emailD, k, t) ==
  IF rev = "v14" THEN getDailyCount(byRec, k, t)
  ELSE IF emailD[k] = NoCounter \/ emailD[k].resetAt <= t THEN 0
  ELSE emailD[k].count

\* request record r went through the per-IP / per-recipient counter
IpBumped(r) ==
  /\ r.why \notin {"captcha", "burst"}
  /\ rev = "routes" \/ r.why \notin {"schema", "disposable"}

RecBumped(r) == IpBumped(r) /\ r.why # "ip"

\* request s passed every guard of the handler (it reached the insert)
PassedGuards(s) ==
  /\ s \in Creates
  /\ req[s].why \notin {"schema", "disposable", "ip", "recipient"}

\* request s may still persist or has persisted its gift
MayPersist(s) == s \in Creates /\ (req[s].gift # "none" \/ req[s].pc = "insert")

PersistedIp(k, d) ==
  {s \in Creates : req[s].ip = k /\ req[s].day = d /\ req[s].gift # "none"}

PersistedRec(k, d) ==
  {s \in Creates : Normalize(req[s].email) = k /\ req[s].day = d
                   /\ req[s].gift # "none"}

\* C5: a daily counter counts only requests whose gift is persisted: the
\* count of a key today is at most the number of today's requests of that key
\* that persisted a gift or are still waiting for their insert
C5_QuotaOnlyForPersisted ==
  /\ \A k \in Ips :
       IpCountAt(dailyByIp, ipDaily, k, now) <=
         Cardinality({s \in Creates : /\ req[s].ip = k
                                      /\ req[s].day = utcDayKey(now)
                                      /\ MayPersist(s)})
  /\ \A k \in Recipients :
       RecCountAt(dailyByRecipient, emailDaily, k, now) <=
         Cardinality({s \in Creates : /\ Normalize(req[s].email) = k
                                      /\ req[s].day = utcDayKey(now)
                                      /\ MayPersist(s)})

\* C6: with per-IP limit L, among the requests of one IP and day that pass
\* all other guards the L-th is accepted (a request is turned away by the IP
\* quota only after L such requests) and the (L+1)-th persists nothing
C6_QuotaBoundary ==
  /\ \A s \in Creates :
       req[s].why = "ip" =>
         Cardinality({r \in Creates : /\ req[r].ip = req[s].ip
                                      /\ req[r].day = req[s].day
                                      /\ PassedGuards(r)}) >= IpLimit
  /\ \A k \in Ips, d \in Days : Cardinality(PersistedIp(k, d)) <= IpLimit

\* C7: for every key and day, the gifts persisted by that day's requests of
\* the key never exceed the key's limit, in any interleaving
C7_PersistedWithinLimit ==
  /\ \A k \in Ips, d \in Days : Cardinality(PersistedIp(k, d)) <= IpLimit
  /\ \A k \in Recipients, d \in Days :
       Cardinality(PersistedRec(k, d)) <= RecLimit

\* one IP has persisted its full quota on a day and a further request of
\* that IP was turned away on that day
C7_Witness ==
  \E s \in Creates :
    /\ req[s].why = "ip" /\ req[s].status = 429
    /\ Cardinality(PersistedIp(req[s].ip, req[s].day)) = IpLimit

\* C8: a request that reaches the counter of a key whose stored count is of
\* an earlier day is admitted by that counter, and the count is then 1
C8_DailyReset ==
  [][\A s \in Slots :
       (req[s].pc = "idle" /\ req'[s].op = "create") =>
         LET r == req'[s]
             e == Normalize(r.email)
             staleIp == IF rev = "v14"
                          THEN /\ dailyByIp[r.ip] # NoBucket
                               /\ dailyByIp[r.ip].dayKey # utcDayKey(now)
                          ELSE /\ ipDaily[r.ip] # NoCounter
                               /\ ipDaily[r.ip].resetAt <= now
             staleRec == IF rev = "v14"
                           THEN /\ dailyByRecipient[e] # NoBucket
                                /\ dailyByRecipient[e].dayKey # utcDayKey(now)
                           ELSE /\ emailDaily[e] # NoCounter
                                /\ emailDaily[e].resetAt <= now
         IN  /\ (staleIp /\ IpBumped(r)) =>
                  /\ r.why # "ip"
                  /\ IpCountAt(dailyByIp', ipDaily', r.ip, now') = 1
             /\ (staleRec /\ RecBumped(r)) =>
                  /\ r.why # "recipient"
                  /\ RecCountAt(dailyByRecipient', emailDaily', e, now') = 1
    ]_vars

\* an IP used its full quota on day 0 and its first request of day 1 was
\* admitted; the count of the IP is 1
C8_Witness ==
  \E s \in Creates :
    /\ req[s].day = 1 /\ utcDayKey(now) = 1
    /\ PassedGuards(s)
    /\ IpCountAt(dailyByIp, ipDaily, req[s].ip, now) = 1
    /\ Cardinality({r \in Creates : /\ req[r].ip = req[s].ip /\ req[r].day = 0
                                    /\ IpBumped(req[r])
                                    /\ req[r].why # "ip"}) >= IpLimit

(* --------------------- creation: response and email ------------------- *)
\* C9: a creation request whose gift was persisted is answered with success,
\* whatever the email dispatch does
C9_PersistedMeansSuccess ==
  \A s \in Creates :
    (Done(s) /\ req[s].gift # "none") => req[s].status \in {200, 201}

\* C10: while the dispatcher's result is not yet known, the response of the
\* creation request has already been sent
C10_ResponseBeforeEmailResult ==
  \A s \in Creates : req[s].mail = "pending" => req[s].status \in {200, 201}

(* ----------------------- claim and get: outcomes ---------------------- *)
\* slot s takes a request of kind op in this step
Arrives(s, op) == req[s].pc = "idle" /\ req'[s].op = op

\* the select of the request arriving in slot s finds a claimed row
FindsClaimed(s) ==
  /\ HasGift(gifts, req'[s].pid)
  /\ getGift(gifts, req'[s].pid).isClaimed

\* C11: a claim request for a gift whose isClaimed is true is answered 409
\* (AlreadyClaimed) and changes no row of the table
C11_AlreadyClaimed409 ==
  [][\A s \in Slots :
       (Arrives(s, "claim") /\ FindsClaimed(s)) =>
         /\ req'[s].pc = "done"
         /\ req'[s].why = "AlreadyClaimed"
         /\ req'[s].status = 409
         /\ gifts' = gifts]_vars

\* C12: get and claim on a publicId no row has are answered NotFound (404)
\* and change nothing; claim on a claimed row is answered AlreadyClaimed,
\* with a status that is neither 404 nor a success
C12_NotFoundVsAlreadyClaimed ==
  [][\A s \in Slots :
       /\ ((Arrives(s, "get") \/ Arrives(s, "claim"))
             /\ ~HasGift(gifts, req'[s].pid)) =>
            /\ req'[s].pc = "done"
            /\ req'[s].why = "NotFound"
            /\ req'[s].status = 404
            /\ UNCHANGED <<gifts, counters>>
       /\ (Arrives(s, "claim") /\ FindsClaimed(s)) =>
            /\ req'[s].pc = "done"
            /\ req'[s].why = "AlreadyClaimed"
            /\ req'[s].status \notin {404, 200, 201}]_vars

\* a get was answered NotFound and a claim of a claimed gift was answered
\* AlreadyClaimed
C12_Witness ==
  /\ \E s \in Slots : /\ req[s].op = "get" /\ req[s].why = "NotFound"
                        /\ req[s].status = 404
  /\ \E s \in Slots : /\ req[s].op = "claim" /\ req[s].why = "AlreadyClaimed"
                        /\ req[s].status # 404

\* C13: a get request, for an existing or a missing publicId, changes
\* neither the table (no row, no isClaimed, no claimedAt) nor a daily counter
C13_GetIsPureRead ==
  [][\A s \in Slots :
       Arrives(s, "get") => UNCHANGED <<gifts, counters>>]_vars

\* get served an unclaimed row that is still unclaimed, and get of a
\* missing publicId was answered 404
C13_Witness ==
  /\ \E s \in Slots : /\ req[s].op = "get" /\ req[s].status = 200
                        /\ ~req[s].seen.isClaimed
                        /\ \E row \in gifts : /\ row.publicId = req[s].pid
                                               /\ ~row.isClaimed
  /\ \E s \in Slots : req[s].op = "get" /\ req[s].status = 404

(* ------------------------------ round trip ---------------------------- *)
\* the creation requests that persisted publicId pid and were answered with
\* success
Created(pid) ==
  {s \in Creates : req[s].gift = pid /\ req[s].status \in {200, 201}}

\* some claim (or claim page) request has issued its update of pid
ClaimIssued(pid) ==
  \E s \in Slots : /\ req[s].op \in {"claim", "view"}
                    /\ req[s].pid = pid /\ req[s].t # NULL

\* some claim request of pid was answered with success
ClaimSucceeded(pid) ==
  \E s \in Slots : /\ req[s].op = "claim" /\ req[s].pid = pid
                    /\ Done(s) /\ req[s].status = 200

\* what a get answered with 200 serves, apart from the message
RoundTripRest(row) ==
  /\ \A s \in Created(row.publicId) :
       /\ row.amount = req[s].body.amount
       /\ ~ClaimIssued(row.publicId) =>
            (~row.isClaimed /\ row.claimedAt = NULL)
  /\ ClaimSucceeded(row.publicId) =>
       /\ row.isClaimed
       /\ row.claimedAt # NULL
       /\ row.claimedAt >= row.createdAt

C15_PublicIdsDistinct ==
  [][/\ \A a, b \in gifts' : a.publicId = b.publicId => a = b
     /\ \A s \in Creates :
          (req[s].pc = "insert" /\ HasGift(gifts, req[s].pid)
           /\ req'[s].pc # "insert") =>
            (gifts' = gifts /\ req'[s].gift = "none")]_vars

\* a creation drew the publicId another creation had persisted and ended
\* without a row; the table holds that row and the demo row
C15_Witness ==
  \E s, r \in Creates :
    /\ s # r
    /\ req[r].gift # "none" /\ req[s].pid = req[r].gift
    /\ Done(s) /\ req[s].why = "insert" /\ req[s].gift = "none"
    /\ Cardinality(gifts) = 2

(* --------------------------- creation: guards ------------------------- *)
\* request s has not reached the insert: nothing persisted, no email
NothingPersisted(s) ==
  /\ req[s].pc \notin {"insert", "email"}
  /\ req[s].gift = "none"
  /\ req[s].mail = "none"

C17_DisposableCheck ==
  \A s \in Creates :
    /\ (env.disposableBlock
         /\ (getDomain(req[s].email) = ""
              \/ getDomain(req[s].email) \in BLOCKED_DOMAINS)) =>
          /\ NothingPersisted(s)
          /\ Done(s) => req[s].status \in {400, 429}
    /\ ~env.disposableBlock => req[s].why # "disposable"

\* C18: the step that answers a creation with a guard failure (400 or 429)
\* leaves the table unchanged, and that request has persisted nothing and
\* dispatched no email
C18_GuardFailurePersistsNothing ==
  [][\A s \in Slots :
       (req'[s].op = "create" /\ ~Done(s) /\ req'[s].pc = "done"
        /\ req'[s].status \in {400, 429}) =>
         /\ gifts' = gifts
         /\ req'[s].gift = "none"
         /\ req'[s].mail = "none"]_vars

\* a creation was turned away by the CAPTCHA after siteverify answered,
\* while the table holds the gift another creation persisted
C18_Witness ==
  /\ \E s \in Creates : /\ req[s].status = 400 /\ req[s].why = "captcha"
                          /\ req[s].gift = "none"
  /\ \E s \in Creates : /\ req[s].gift # "none" /\ req[s].mail # "none"
                          /\ Cardinality(gifts) = 2

\* C19: a creation whose insert failed is answered 500, has persisted
\* nothing and dispatched no email
C19_InsertFailureIs500 ==
  \A s \in Creates :
    (Done(s) /\ req[s].why = "insert") =>
      /\ req[s].status = 500
      /\ req[s].gift = "none"
      /\ req[s].mail = "none"

\* C20: the step that answers a creation with a failed schema validation,
\* disposable check or CAPTCHA leaves the per-IP and the per-recipient
\* counters unchanged
C20_FailedGuardsKeepCounters ==
  [][\A s \in Slots :
       (req'[s].op = "create" /\ ~Done(s) /\ req'[s].pc = "done"
        /\ req'[s].why \in {"schema", "disposable", "captcha"}) =>
         UNCHANGED <<dailyByIp, dailyByRecipient, ipDaily, emailDaily>>]_vars

(* ----------------------- claim page, immutability --------------------- *)
\* the request of slot s takes a step
Steps(s) == req'[s] # req[s]

\* C21: no step of a claim-page view (GET /claim/:publicId) changes
\* isClaimed or claimedAt of a gift
C21_ClaimPageIsRead ==
  [][\A s \in Slots :
       (Steps(s) /\ req'[s].op = "view") =>
         \A row \in gifts : \E after \in gifts' :
           /\ after.publicId = row.publicId
           /\ after.isClaimed = row.isClaimed
           /\ after.claimedAt = row.claimedAt]_vars

\* C22: every step keeps every row with its publicId, recipientEmail,
\* message, amount and createdAt, and the update of a claim (or claim page)
\* request leaves the rows of all other publicIds as they are
C22_CreationFieldsImmutable ==
  [][/\ \A row \in gifts : \E after \in gifts' :
          /\ after.publicId = row.publicId
          /\ after.recipientEmail = row.recipientEmail
          /\ after.message = row.message
          /\ after.amount = row.amount
          /\ after.createdAt = row.createdAt
     /\ \A s \in Slots :
          (Steps(s) /\ req[s].op \in {"claim", "view"}) =>
            \A row \in gifts : row.publicId # req[s].pid => row \in gifts'
    ]_vars

\* the demo gift was claimed with success while the table holds a created
\* gift, unclaimed and with the fields its creation request wrote
C22_Witness ==
  /\ \E c \in Slots : /\ req[c].op = "claim" /\ req[c].pid = DemoId
                        /\ Done(c) /\ req[c].status = 200
  /\ \E row \in gifts : row.publicId = DemoId /\ row.amount = 1000
  /\ \E s \in Creates : \E row \in gifts :
       /\ row.publicId = req[s].gift
       /\ ~row.isClaimed
       /\ row.message = req[s].msg /\ row.amount = req[s].amount
       /\ row.recipientEmail = req[s].email

(* ------------------------------- cooldown ----------------------------- *)
\* C23: in the revision with the claim cooldown, a claim or claim-page
\* request for an unclaimed gift younger than the cooldown is answered 429
\* and changes no row; every claimed gift has claimedAt >= createdAt +
\* cooldown; a claim of a claimed gift is answered AlreadyClaimed (409)
\* whatever the age of the gift
C23_ClaimCooldown ==
  [][rev = "routes" =>
       /\ \A s \in Slots :
            ((Arrives(s, "claim") \/ Arrives(s, "view"))
             /\ HasGift(gifts, req'[s].pid)
             /\ ~getGift(gifts, req'[s].pid).isClaimed
             /\ now - getGift(gifts, req'[s].pid).createdAt
                  < MIN_CLAIM_DELAY_MS) =>
              /\ req'[s].pc = "done"
              /\ req'[s].status = 429
              /\ gifts' = gifts
       /\ \A row \in gifts' :
            row.isClaimed =>
              row.claimedAt >= row.createdAt + MIN_CLAIM_DELAY_MS
       /\ \A s \in Slots :
            (Arrives(s, "claim") /\ FindsClaimed(s)) =>
              (req'[s].why = "AlreadyClaimed" /\ req'[s].status = 409)
    ]_vars

\* a claim inside the cooldown window was answered 429, a later claim of
\* the same gift succeeded, and a claim after that was answered 409
C23_Witness ==
  /\ rev = "routes"
  /\ \E a, b, c \in Slots :
       /\ req[a].op = "claim" /\ req[a].why = "Cooldown" /\ req[a].status = 429
       /\ req[b].op = "claim" /\ req[b].pid = req[a].pid /\ req[b].status = 200
       /\ req[c].op = "claim" /\ req[c].pid = req[a].pid /\ req[c].status = 409
       /\ \E row \in gifts :
            /\ row.publicId = req[a].pid
            /\ row.claimedAt >= row.createdAt + MIN_CLAIM_DELAY_MS

(* -------------------------------- CAPTCHA ----------------------------- *)
\* C24: with TURNSTILE_SECRET_KEY set, a creation without a token or with a
\* token siteverify does not accept is answered 400 on the token field,
\* and up to that answer the request touches no counter and persists
\* nothing; without the secret the check is skipped and rejects nothing
C24_CaptchaGuard ==
  [][\A s \in Slots :
       (req'[s].op = "create" /\ req'[s].h # "v14") =>
         /\ req'[s].captcha \in {"missing_token", "failed"} =>
              /\ req'[s].pc = "done"
              /\ req'[s].status = 400 /\ req'[s].why = "captcha"
              /\ req'[s].gift = "none" /\ req'[s].mail = "none"
         /\ (Steps(s) /\ req'[s].captcha \in {"missing_token", "failed", "fetch"}) =>
              UNCHANGED <<gifts, dailyByIp, dailyByRecipient, ipDaily, emailDaily>>
         /\ env.turnstile => req'[s].captcha # "skipped"
         /\ ~env.turnstile =>
              (req'[s].captcha = "skipped" /\ req'[s].why # "captcha")
    ]_vars

\* with the secret set, one creation without a token and one whose token
\* siteverify refused were answered 400, and the counters are untouched
C24_Witness ==
  /\ env.turnstile
  /\ \E s \in Creates : /\ req[s].captcha = "missing_token"
                          /\ req[s].status = 400
  /\ \E s \in Creates : req[s].captcha = "failed" /\ req[s].status = 400
  /\ \A k \in Ips : ipDaily[k] = NoCounter
  /\ gifts = {SeedRow}

(* --------------------------- outbound timeouts ------------------------ *)
\* C25: every creation request is eventually answered, whether or not the
\* email provider and the CAPTCHA service answer
C25_CreateAlwaysAnswered ==
  \A s \in Slots : (req[s].op = "create") ~> (req[s].status # 0)

(* ----------------------------- sendGiftEmail -------------------------- *)
\* the first attempt of the log failed in a way the claim calls retryable
FirstWasRetryable ==
  LET r == mailer.log[1]
  IN  \/ r.status = 429
      \/ r.status >= 500
      \/ r.status = 0 /\ r.msg \in {"This operation was aborted",
                                    "network timeout",
                                    "getaddrinfo ENOTFOUND api.brevo.com"}

\* C26: one invocation of sendGiftEmail sends at most twice; it sends a
\* second time only after a 429, a 5xx or an abort/timeout/network error,
\* an attempt that succeeded or failed otherwise ends it, and a second
\* failure is reported without a third attempt
C26_AtMostTwoAttempts ==
  /\ mailer.attempt <= 2
  /\ Len(mailer.log) <= 2
  /\ mailer.attempt = 2 => FirstWasRetryable
  /\ (Len(mailer.log) = 1 /\ mailer.log[1].status # 0
        /\ mailer.log[1].status # 429 /\ mailer.log[1].status < 500) =>
       mailer.pc \in {"returned", "thrown"}
  /\ Len(mailer.log) = 2 =>
       /\ mailer.pc \in {"returned", "thrown"}
       /\ (mailer.variant = "email.ts" /\ ~RespOk(mailer.log[2])) =>
            mailer.result = "ok:false"

\* a first attempt answered 503 was followed by a second one, answered 429,
\* and the invocation returned the failure
C26_Witness ==
  /\ mailer.variant = "email.ts"
  /\ Len(mailer.log) = 2
  /\ mailer.log[1].status = 503
  /\ mailer.log[2].status = 429
  /\ mailer.pc = "returned"
  /\ mailer.result = "ok:false"

\* C27: sendGiftEmail never throws: it returns ok:true or ok:false, and
\* with an invalid recipient or missing credentials it returns ok:false
\* before any request to the provider
C27_NeverThrows ==
  /\ mailer.pc # "thrown"
  /\ mailer.pc = "returned" => mailer.result \in {"ok:true", "ok:false"}
  /\ (mailer.pc # "idle"
        /\ (~isEmail(mailer.to) \/ ~mailer.apiKey \/ ~mailer.fromEmail)) =>
       /\ mailer.pc = "returned"
       /\ mailer.result = "ok:false"
       /\ mailer.attempt = 0
       /\ mailer.log = <<>>

(* ------------------------------ dispatches ---------------------------- *)
\* the calls of sendGiftEmail request s made are for the gift it persisted
ForOwnGift(s) ==
  \A i \in 1 .. Len(req[s].sent) :
    /\ req[s].gift = req[s].sent[i].claim
    /\ \E row \in gifts :
         /\ row.publicId = req[s].sent[i].claim
         /\ row.recipientEmail = req[s].sent[i].to
         /\ row.message = req[s].sent[i].message
         /\ row.amount = req[s].sent[i].amount

\* C28: sendGiftEmail is called only for a gift that is already in the
\* table, with the recipient, message and amount of that gift and the
\* claim link of its public id, once for each request that persisted a gift
\* and not at all for a request that persisted nothing
C28_DispatchOnlyForPersisted ==
  \A s \in Slots :
    /\ ForOwnGift(s)
    /\ Len(req[s].sent) = IF req[s].gift = "none" THEN 0 ELSE 1

\* C28 for creation requests
C28_CreateDispatchesOwnGift ==
  \A s \in Creates :
    /\ ForOwnGift(s)
    /\ Len(req[s].sent) = IF req[s].gift = "none" THEN 0 ELSE 1

\* one creation persisted a gift and handed it to sendGiftEmail, another
\* was rejected and sent nothing
C28_Witness ==
  /\ \E s \in Creates :
       /\ req[s].gift # "none"
       /\ Len(req[s].sent) = 1
       /\ req[s].sent[1].message = "hello"
       /\ req[s].pc = "done"
  /\ \E s \in Creates : Done(s) /\ req[s].gift = "none" /\ req[s].status = 400

(* ---------------------------- daily counters -------------------------- *)
\* an earlier request of the day of record r was turned away by the counter
\* named reason ("ip": under r's address, "recipient": under r's recipient)
RejectedBefore(r, reason) ==
  \E t \in Creates :
    /\ req[t].why = reason
    /\ req[t].day = r.day
    /\ IF reason = "ip" THEN req[t].ip = r.ip
       ELSE Normalize(req[t].email) = Normalize(r.email)

\* C30: the count stored for a key and the current day is between 1 and
\* the limit, a rejection by a counter leaves the entry of its key as it
\* was, and a key that was rejected is rejected again for the rest of the day
C30_DailyCounterInvariant ==
  [][/\ \A k \in Ips :
          IpCountAt(dailyByIp', ipDaily', k, now') \in 0 .. IpLimit
     /\ \A k \in Recipients :
          RecCountAt(dailyByRecipient', emailDaily', k, now') \in 0 .. RecLimit
     /\ \A s \in Slots :
          Arrives(s, "create") =>
            /\ req'[s].why = "ip" =>
                 /\ dailyByIp'[req'[s].ip] = dailyByIp[req'[s].ip]
                 /\ ipDaily'[req'[s].ip] = ipDaily[req'[s].ip]
            /\ req'[s].why = "recipient" =>
                 LET k == Normalize(req'[s].email)
                 IN  /\ dailyByRecipient'[k] = dailyByRecipient[k]
                     /\ emailDaily'[k] = emailDaily[k]
            /\ (IpBumped(req'[s]) /\ RejectedBefore(req'[s], "ip")) =>
                 req'[s].why = "ip"
            /\ (RecBumped(req'[s]) /\ RejectedBefore(req'[s], "recipient")) =>
                 req'[s].why = "recipient"
    ]_vars

(* ------------------------------ burst limiter ------------------------- *)
\* the window of key k is running
WindowOpen(k) == hits[k] # NoHits /\ hits[k].resetAt > now

\* C29: a request the limiter passes on is at most the max-th of its
\* window; a request beyond that is answered 429 by the limiter and changes
\* neither the daily counters nor the table; a request that arrives when
\* the window has run out is passed on and starts a window with count 1
C29_BurstLimiter ==
  [][\A s \in Slots :
       Arrives(s, "create") =>
         LET k == req'[s].ip
         IN  /\ req'[s].why # "burst" => hits'[k].count <= BURST_MAX
             /\ WindowOpen(k) =>
                  /\ hits'[k].count = hits[k].count + 1
                  /\ hits'[k].resetAt = hits[k].resetAt
             /\ (WindowOpen(k) /\ hits[k].count >= BURST_MAX) =>
                  /\ req'[s].pc = "done"
                  /\ req'[s].status = 429 /\ req'[s].why = "burst"
                  /\ UNCHANGED <<gifts, dailyByIp, dailyByRecipient,
                                 ipDaily, emailDaily>>
             /\ ~WindowOpen(k) =>
                  /\ req'[s].why # "burst"
                  /\ hits'[k] = [count |-> 1, resetAt |-> now + BURST_WINDOW]
    ]_vars

\* a request was turned away by the limiter, and after the window had run
\* out another one of the same key was passed on and started a new window
C29_Witness ==
  \E s, t \in Creates :
    /\ req[s].why = "burst" /\ req[s].status = 429
    /\ s < t
    /\ req[t].ip = req[s].ip
    /\ req[t].why # "burst"
    /\ hits[req[t].ip] = [count |-> 1, resetAt |-> now + BURST_WINDOW]
    /\ now >= BURST_WINDOW

====
